---------------------------- MODULE Spec2Model ----------------------------
(***************************************************************************)
(* The Majority finality provider of checkpointz (pkg/beacon/majority.go). *)
(*                                                                         *)
(* The provider polls its upstream beacon nodes every five seconds, takes  *)
(* the majority finalized checkpoint as `head`, publishes a                *)
(* finality_head_updated event when the head root changes, and promotes    *)
(* the majority to `currentBundle` (the serving view returned by Finality) *)
(* once the block and its beacon state are in the local stores and the     *)
(* block sits on an epoch boundary.  The block/state stores, the bundle    *)
(* downloader, the checkpoint aggregator and the event broker are other    *)
(* packages; they are modelled from their documented contracts.            *)
(***************************************************************************)
EXTENDS Integers, Sequences, FiniteSets, TLC

(***************************************************************************)
(* Bounds of the model.                                                    *)
(***************************************************************************)
\* Upstream nodes configured (m.nodes).
NumNodes == 4
\* Blocks of the chain the upstreams can report or serve.
NumRoots == 3
\* Highest finalized epoch an upstream reports.
MaxEpoch == 2
\* Highest epoch of a checkpoint handed to fetchHistoricalCheckpoints alone.
MaxBackfillEpoch == 11

(***************************************************************************)
(* Program constants.                                                      *)
(***************************************************************************)
\* const slotsPerEpoch = 32 in updateServingCheckpoint
slotsPerEpoch == 32
\* historicalDistance := uint64(10) in fetchHistoricalCheckpoints
historicalDistance == 10
\* Modulus of the unsigned arithmetic of fetchHistoricalCheckpoints.  The code
\* computes in uint64; the model keeps the wrap-around at a width its integers
\* can hold, far above every slot of the chain.
UintMod == 2^24

(***************************************************************************)
(* The chain: what the upstream nodes hold.  A block is identified by its  *)
(* root; root 1 is the genesis block (slot 0), even roots sit on an epoch  *)
(* boundary, the other odd roots one slot after a boundary.                *)
(***************************************************************************)
Nodes == 1..NumNodes
Roots == 1..NumRoots
GenesisRoot == 1

SlotOfRoot(r) == IF r = GenesisRoot THEN 0 ELSE 32 * (r \div 2) + (r % 2)
StateRootOfRoot(r) == NumRoots + r
StateRoots == {StateRootOfRoot(r) : r \in Roots}

\* spec.VersionedSignedBeaconBlock: Root(), Slot(), StateRoot()
Block(r) == [root |-> r, slot |-> SlotOfRoot(r), stateRoot |-> StateRootOfRoot(r)]
NoBlock == [root |-> 0, slot |-> 0, stateRoot |-> 0]

\* The upstreams report SlotsPerEpoch through GetSpec.
SpecSlotsPerEpoch == {32}

\* v1.Finality (only Finalized is read by the provider).  NilFinality is the
\* &v1.Finality{} of NewMajorityProvider, whose Finalized is nil.
NilFinality == [epoch |-> 0, root |-> 0]
\* A block is the finalized root of the epochs that start at or after its
\* slot (the genesis block: of epoch 0).
FirstEpoch(r) == (SlotOfRoot(r) + 31) \div 32
LastEpoch(r) == IF r = GenesisRoot THEN 0 ELSE MaxEpoch
Checkpoints ==
  {c \in [epoch : 0..MaxEpoch, root : Roots] :
     c.epoch >= FirstEpoch(c.root) /\ c.epoch <= LastEpoch(c.root)}

\* What a node answers to GetFinality in one poll: a checkpoint, or nothing
\* (the node is not ready, or the call fails).
NoReport == [epoch |-> 0, root |-> -1]
Polls == [Nodes -> Checkpoints \cup {NoReport}]

VARIABLES
  head,           \* m.head
  currentBundle,  \* m.currentBundle
  blocks,         \* m.blocks : the roots of the blocks stored
  states,         \* m.states : the state roots of the states stored
  tasks,          \* m.bundleDownloader : root -> live download tasks
  genesis,        \* position of the one-shot genesis task
  last            \* what the step just taken did (observation, see Obs)

vars == <<head, currentBundle, blocks, states, tasks, genesis, last>>

\* The observation of a step: the operation that ran and
\*   for checkFinality: the majority it found, the error it returned, whether
\*     it published finality_head_updated, the store keys it looked up and
\*     found, and whether its AddToQueue met a live task for the root;
\*   for a Query API call ("query", and "UpstreamsStatus" for that method):
\*     the error and value returned, and the upstream client calls made;
\*   for the AddToQueue of checkGenesis: whether it met a live task.
\* Steps of the stores and of the download tasks leave NoObs.
Obs(op) == [op |-> op, majority |-> NilFinality, err |-> "none", published |-> FALSE,
            reads |-> {}, found |-> FALSE, calls |-> 0, dup |-> FALSE]
NoObs == Obs("none")

(***************************************************************************)
(* store.Block and store.BeaconState: bounded caches with expiry, keyed by *)
(* block root and by state root.  The stores evict on their own (TTL       *)
(* expiry, capacity pressure): see EvictBlock and EvictState.              *)
(***************************************************************************)
Has(store, k) == k \in store

\* Add(value, expiresAt)
Add(store, k) == store \cup {k}

\* blocks.GetByRoot: the block, or nil (NoBlock) when absent.
GetByRoot(bl, r) == IF Has(bl, r) THEN Block(r) ELSE NoBlock

\* blocks.GetBySlot
GetBySlot(bl, slot) ==
  LET found == {r \in bl : SlotOfRoot(r) = slot}
  IN  IF found = {} THEN NoBlock ELSE Block(CHOOSE r \in found : TRUE)

\* blocks.GetByStateRoot
GetBlockOfStateRoot(bl, sr) ==
  LET found == {r \in bl : StateRootOfRoot(r) = sr}
  IN  IF found = {} THEN NoBlock ELSE Block(CHOOSE r \in found : TRUE)

\* states.GetByStateRoot: is the state blob there (nil when absent)
GetState(st, sr) == Has(st, sr)

(***************************************************************************)
(* Checkpoints.Majority: the report with the highest count; ties go to the *)
(* higher finalized epoch, then to the larger root.                        *)
(***************************************************************************)
\* Faulty variant: the polling loop ends at the first node that fails (break
\* for continue).
CollectUntilFailure(poll, n) ==
  LET fails == {i \in 1..n : poll[i] = NoReport}
      upto == IF fails = {} THEN n
              ELSE (CHOOSE i \in fails : \A j \in fails : i <= j) - 1
  IN  [i \in 1..upto |-> poll[i]]

\* Faulty variant: a node that fails ends the collection with nothing (return
\* for continue).
CollectOrAbort(poll, n) ==
  IF \E i \in 1..n : poll[i] = NoReport THEN <<>> ELSE [i \in 1..n |-> poll[i]]

\* aggFinality: the reports collected in polling order, failures skipped.
RECURSIVE Collect(_, _)
Collect(poll, n) ==
  IF n = 0 THEN <<>>
  ELSE IF poll[n] = NoReport THEN Collect(poll, n - 1)
       ELSE Append(Collect(poll, n - 1), poll[n])

Count(agg, c) == Cardinality({i \in 1..Len(agg) : agg[i] = c})

Beats(agg, a, b) ==
  \/ Count(agg, a) > Count(agg, b)
  \/ /\ Count(agg, a) = Count(agg, b)
     /\ \/ a.epoch > b.epoch
        \/ a.epoch = b.epoch /\ a.root > b.root

\* NilFinality stands for the "no candidates" error.
Majority(agg) ==
  LET cands == {agg[i] : i \in 1..Len(agg)}
  IN  IF cands = {} THEN NilFinality
      ELSE CHOOSE c \in cands : \A d \in cands \ {c} : Beats(agg, c, d)

(***************************************************************************)
(* BundleDownloader: a single-flight queue of download tasks keyed by      *)
(* block root.  tasks[r] is the number of live download tasks for root r.  *)
(***************************************************************************)
ExistsInQueue(ts, r) == ts[r] > 0

\* Faulty variant: a queue that starts a task on every call.
AddToQueueAlways(ts, r) == [ts EXCEPT ![r] = @ + 1]

\* A root already in the queue is left alone.
AddToQueue(ts, r) == IF ExistsInQueue(ts, r) THEN ts ELSE [ts EXCEPT ![r] = 1]

(***************************************************************************)
(* Majority.updateServingCheckpoint(checkpoint), on stores bl and st with  *)
(* serving view cur.  se names the store call that returns an error in     *)
(* this run, if any.  StateRoot() and Slot() of a stored block succeed.    *)
(***************************************************************************)
StoreErrs == {"none", "GetByRoot", "GetByStateRoot"}

\* Faulty variant: the epoch-boundary check is missing.
updateServingCheckpointUnaligned(bl, st, cur, checkpoint, se) ==
  LET block == GetByRoot(bl, checkpoint.root)
      state == GetState(st, block.stateRoot)
  IN  IF se = "GetByRoot"
      THEN [err |-> "store error", bundle |-> cur, reads |-> {}]
      ELSE IF block = NoBlock
      THEN [err |-> "block not found", bundle |-> cur, reads |-> {}]
      ELSE IF se = "GetByStateRoot"
      THEN [err |-> "store error", bundle |-> cur, reads |-> {block.root}]
      ELSE IF ~state
      THEN [err |-> "state not found", bundle |-> cur, reads |-> {block.root}]
      ELSE [err |-> "none", bundle |-> checkpoint,
            reads |-> {block.root, block.stateRoot}]

\* Faulty variant: m.currentBundle is assigned once the block is found, before
\* the state lookup and the epoch-boundary check.
updateServingCheckpointEarly(bl, st, cur, checkpoint, se) ==
  LET block == GetByRoot(bl, checkpoint.root)
      state == GetState(st, block.stateRoot)
  IN  IF se = "GetByRoot"
      THEN [err |-> "store error", bundle |-> cur, reads |-> {}]
      ELSE IF block = NoBlock
      THEN [err |-> "block not found", bundle |-> cur, reads |-> {}]
      ELSE IF se = "GetByStateRoot"
      THEN [err |-> "store error", bundle |-> checkpoint, reads |-> {block.root}]
      ELSE IF ~state
      THEN [err |-> "state not found", bundle |-> checkpoint, reads |-> {block.root}]
      ELSE IF block.slot % slotsPerEpoch # 0
      THEN [err |-> "not aligned", bundle |-> checkpoint,
            reads |-> {block.root, block.stateRoot}]
      ELSE [err |-> "none", bundle |-> checkpoint,
            reads |-> {block.root, block.stateRoot}]

\* Faulty variant: a nil state is not told from a state.
updateServingCheckpointNilState(bl, st, cur, checkpoint, se) ==
  LET block == GetByRoot(bl, checkpoint.root)
  IN  IF se = "GetByRoot"
      THEN [err |-> "store error", bundle |-> cur, reads |-> {}]
      ELSE IF block = NoBlock
      THEN [err |-> "block not found", bundle |-> cur, reads |-> {}]
      ELSE IF se = "GetByStateRoot"
      THEN [err |-> "store error", bundle |-> cur, reads |-> {block.root}]
      ELSE IF block.slot % slotsPerEpoch # 0
      THEN [err |-> "not aligned", bundle |-> cur, reads |-> {block.root}]
      ELSE [err |-> "none", bundle |-> checkpoint, reads |-> {block.root}]

updateServingCheckpoint(bl, st, cur, checkpoint, se) ==
  LET block == GetByRoot(bl, checkpoint.root)
      state == GetState(st, block.stateRoot)
  IN  IF se = "GetByRoot"
      THEN [err |-> "store error", bundle |-> cur, reads |-> {}]
      ELSE IF block = NoBlock
      THEN [err |-> "block not found", bundle |-> cur, reads |-> {}]
      ELSE IF se = "GetByStateRoot"
      THEN [err |-> "store error", bundle |-> cur, reads |-> {block.root}]
      ELSE IF ~state
      THEN [err |-> "state not found", bundle |-> cur, reads |-> {block.root}]
      ELSE IF block.slot % slotsPerEpoch # 0
      THEN [err |-> "not aligned", bundle |-> cur,
            reads |-> {block.root, block.stateRoot}]
      ELSE [err |-> "none", bundle |-> checkpoint,
            reads |-> {block.root, block.stateRoot}]

(***************************************************************************)
(* The subscribers of finality_head_updated, registered by Start.          *)
(***************************************************************************)
\* handleFinalityUpdated: enqueue the bundle download.  AddToQueue may refuse
\* (queue saturated); the error is logged by the subscriber wrapper.
handleFinalityUpdated(ts, checkpoint, saturated) ==
  IF saturated THEN ts ELSE AddToQueue(ts, checkpoint.root)

\* The block an upstream serves for a slot (nil, NoBlock, when the slot is empty).
UpstreamBlockAtSlot(slot) ==
  LET found == {r \in Roots : SlotOfRoot(r) = slot}
  IN  IF found = {} THEN NoBlock ELSE Block(CHOOSE r \in found : TRUE)

\* The slot of iteration i of the back-fill loop, in unsigned arithmetic.
HistoricalSlot(epoch, spe, i) == (((epoch * spe) % UintMod) - i * spe) % UintMod

\* The loop of fetchHistoricalCheckpoints from iteration i on; failAt is the
\* iteration whose FetchBlock returns an error (0: none does).
RECURSIVE Backfill(_, _, _, _, _)
Backfill(bl, epoch, spe, i, failAt) ==
  IF i >= historicalDistance THEN bl
  ELSE LET slot == HistoricalSlot(epoch, spe, i)
           have == GetBySlot(bl, slot)
           block == UpstreamBlockAtSlot(slot)
       IN  IF slot = 0 THEN Backfill(bl, epoch, spe, i + 1, failAt)
           ELSE IF have # NoBlock THEN Backfill(bl, epoch, spe, i + 1, failAt)
           ELSE IF i = failAt THEN bl
           ELSE IF block = NoBlock THEN Backfill(bl, epoch, spe, i + 1, failAt)
           ELSE Backfill(Add(bl, block.root), epoch, spe, i + 1, failAt)

\* The calls the loop makes from iteration i on, in order: the slots it looks
\* up with GetBySlot, the slots it asks the upstream for with FetchBlock, and
\* whether it runs to its end (no FetchBlock returns an error).
RECURSIVE BackfillCalls(_, _, _, _, _)
BackfillCalls(bl, epoch, spe, i, failAt) ==
  IF i >= historicalDistance
  THEN [lookups |-> <<>>, requests |-> <<>>, complete |-> TRUE]
  ELSE LET slot == HistoricalSlot(epoch, spe, i)
           have == GetBySlot(bl, slot)
           block == UpstreamBlockAtSlot(slot)
           skip == BackfillCalls(bl, epoch, spe, i + 1, failAt)
           rest == IF block = NoBlock THEN skip
                   ELSE BackfillCalls(Add(bl, block.root), epoch, spe, i + 1, failAt)
       IN  IF slot = 0 THEN skip
           ELSE IF have # NoBlock
           THEN [skip EXCEPT !.lookups = <<slot>> \o @]
           ELSE IF i = failAt
           THEN [lookups |-> <<slot>>, requests |-> <<slot>>, complete |-> FALSE]
           ELSE [rest EXCEPT !.lookups = <<slot>> \o @, !.requests = <<slot>> \o @]

\* fetchHistoricalCheckpoints: the block store it leaves.  provider is FALSE
\* when no data provider is available or GetSpec / GetGenesis fails.
fetchHistoricalCheckpoints(bl, checkpoint, provider, spe, failAt) ==
  IF provider THEN Backfill(bl, checkpoint.epoch, spe, 1, failAt) ELSE bl

\* What fetchHistoricalCheckpoints can leave in the block store, over the
\* answers of the upstream: the triples <<store before, checkpoint, store after>>.
BackfillTable ==
  UNION {{<<bl, checkpoint,
            fetchHistoricalCheckpoints(bl, checkpoint, provider, spe, failAt)>> :
             provider \in BOOLEAN, spe \in SpecSlotsPerEpoch,
             failAt \in 0..(historicalDistance - 1)} :
          bl \in SUBSET Roots, checkpoint \in Checkpoints}

BackfillOutcomes(bl, checkpoint) ==
  {t[3] : t \in {u \in BackfillTable : u[1] = bl /\ u[2] = checkpoint}}

(***************************************************************************)
(* The periodic job of Start: every five seconds, checkFinality.           *)
(***************************************************************************)
\* Faulty variant: the whole checkpoint is compared, not the root.
HeadDiffersByCheckpoint(h, majority) == h # majority

\* Faulty variant: the head condition compares the epochs, not the roots.
HeadDiffersByEpoch(h, majority) == h = NilFinality \/ h.epoch # majority.epoch

\* The head condition of checkFinality.
HeadDiffers(h, majority) == h = NilFinality \/ h.root # majority.root

\* Faulty variant: the serving condition compares the whole checkpoint, not
\* the root alone.
BundleDiffersByCheckpoint(cur, majority) == cur # majority

\* The serving condition of checkFinality.
BundleDiffers(cur, majority) == cur = NilFinality \/ cur.root # majority.root

\* publishFinalityCheckpointHeadUpdated: broker.Emit calls every subscriber in
\* a goroutine of its own and returns when all of them have; both have run
\* when checkFinality goes on.  backfilled is the block store that
\* fetchHistoricalCheckpoints leaves.
publishFinalityCheckpointHeadUpdated(ts, checkpoint, saturated, backfilled) ==
  [tasks |-> handleFinalityUpdated(ts, checkpoint, saturated), blocks |-> backfilled]

\* Faulty variant: the error of aggregated.Majority() is not returned, and
\* the nil majority goes on to head.
checkFinalityIgnoringError(majority, se, saturated, backfilled) ==
  /\ head' = majority
  /\ last' = IF majority = NilFinality
             THEN [Obs("checkFinality") EXCEPT !.err = "no candidates"]
             ELSE [Obs("checkFinality") EXCEPT !.majority = majority]
  /\ UNCHANGED <<currentBundle, blocks, tasks>>

checkFinality(majority, se, saturated, backfilled) ==
  IF majority = NilFinality
  THEN /\ last' = [Obs("checkFinality") EXCEPT !.err = "no candidates"]
       /\ UNCHANGED <<head, currentBundle, blocks, tasks>>
  ELSE LET publish == HeadDiffers(head, majority)
           emitted == IF publish
                      THEN publishFinalityCheckpointHeadUpdated(tasks, majority,
                                                                saturated, backfilled)
                      ELSE [tasks |-> tasks, blocks |-> blocks]
           res == IF BundleDiffers(currentBundle, majority)
                  THEN updateServingCheckpoint(emitted.blocks, states, currentBundle,
                                               majority, se)
                  ELSE [err |-> "none", bundle |-> currentBundle, reads |-> {}]
       IN  /\ head' = IF publish THEN majority ELSE head
           /\ tasks' = emitted.tasks
           /\ blocks' = emitted.blocks
           /\ currentBundle' = res.bundle
           /\ last' = [Obs("checkFinality") EXCEPT !.majority = majority,
                         !.err = res.err, !.published = publish, !.reads = res.reads,
                         !.dup = publish /\ ~saturated
                                 /\ ExistsInQueue(tasks, majority.root)]

\* What aggregated.Majority() can return for the polls of the nodes.
PollMajorities == {Majority(Collect(poll, NumNodes)) : poll \in Polls}

\* One run of the job, as one step: the downloads, evictions and queries that
\* run beside it come before or after.  The inputs are the answers of what it
\* calls: the majority of the polls, the store call that fails (when it
\* reaches updateServingCheckpoint), and the outcome of the subscribers (when
\* it publishes).
Tick ==
  /\ \E majority \in PollMajorities :
       LET serving == majority # NilFinality /\ BundleDiffers(currentBundle, majority)
           publish == majority # NilFinality /\ HeadDiffers(head, majority)
       IN  \E se \in IF serving THEN StoreErrs ELSE {"none"},
              saturated \in IF publish THEN BOOLEAN ELSE {FALSE},
              backfilled \in IF publish THEN BackfillOutcomes(blocks, majority)
                                       ELSE {blocks} :
              checkFinality(majority, se, saturated, backfilled)
  /\ UNCHANGED <<states, genesis>>

(***************************************************************************)
(* The download tasks of the bundle downloader.  A task fetches the block  *)
(* by root and adds it if missing, then fetches the state by the block's   *)
(* state root and adds it.  A failed fetch is retried with another         *)
(* upstream; when the attempts are used up the task is dropped.            *)
(***************************************************************************)
Finish(ts, r) == [ts EXCEPT ![r] = @ - 1]

\* The task runs to its end: block and state are stored.
DownloadBundle(r) ==
  /\ tasks[r] > 0
  /\ tasks' = Finish(tasks, r)
  /\ blocks' = Add(blocks, r)
  /\ states' = Add(states, StateRootOfRoot(r))
  /\ last' = NoObs
  /\ UNCHANGED <<head, currentBundle, genesis>>

\* The block is stored and the fetch of the state fails: the task goes on
\* with another attempt.
DownloadBlockOnly(r) ==
  /\ tasks[r] > 0
  /\ blocks' = Add(blocks, r)
  /\ last' = NoObs
  /\ UNCHANGED <<head, currentBundle, states, tasks, genesis>>

\* The last attempt fails: the task is dropped.
DownloadDrop(r) ==
  /\ tasks[r] > 0
  /\ tasks' = Finish(tasks, r)
  /\ last' = NoObs
  /\ UNCHANGED <<head, currentBundle, blocks, states, genesis>>

Download == \E r \in Roots : DownloadBundle(r) \/ DownloadBlockOnly(r) \/ DownloadDrop(r)

(***************************************************************************)
(* startGenesisLoop: five seconds after Start, checkGenesis, once.         *)
(***************************************************************************)
\* Faulty variant: a genesis bundle found in the stores is put up as the
\* serving view.
GenesisCheckServing ==
  /\ genesis = "wait"
  /\ \E ready \in BOOLEAN :
       LET block == GetBySlot(blocks, 0)
           state == block # NoBlock /\ GetState(states, block.stateRoot)
       IN  /\ genesis' = IF state \/ ~ready THEN "done" ELSE "fetched"
           /\ currentBundle' = IF state THEN [epoch |-> 0, root |-> block.root]
                                ELSE currentBundle
  /\ last' = NoObs
  /\ UNCHANGED <<head, blocks, states, tasks>>

\* checkGenesis up to genesisBlock.Root(): ready is FALSE when no node is
\* ready or FetchBlock("genesis") fails.
GenesisCheck ==
  /\ genesis = "wait"
  /\ \E ready \in BOOLEAN :
       LET block == GetBySlot(blocks, 0)
           state == block # NoBlock /\ GetState(states, block.stateRoot)
       IN  genesis' = IF state \/ ~ready THEN "done" ELSE "fetched"
  /\ last' = NoObs
  /\ UNCHANGED <<head, currentBundle, blocks, states, tasks>>

\* if m.bundleDownloader.ExistsInQueue(genesisBlockRoot) { return nil }
GenesisExistsInQueue ==
  /\ genesis = "fetched"
  /\ genesis' = IF ExistsInQueue(tasks, GenesisRoot) THEN "done" ELSE "add"
  /\ last' = NoObs
  /\ UNCHANGED <<head, currentBundle, blocks, states, tasks>>

\* m.bundleDownloader.AddToQueue(ctx, genesisBlockRoot)
GenesisAddToQueue ==
  /\ genesis = "add"
  /\ genesis' = "done"
  /\ \E saturated \in BOOLEAN :
       /\ tasks' = IF saturated THEN tasks ELSE AddToQueue(tasks, GenesisRoot)
       /\ last' = IF saturated THEN NoObs
                  ELSE [Obs("checkGenesis") EXCEPT
                          !.dup = ExistsInQueue(tasks, GenesisRoot)]
  /\ UNCHANGED <<head, currentBundle, blocks, states>>

checkGenesis == GenesisCheck \/ GenesisExistsInQueue \/ GenesisAddToQueue

(***************************************************************************)
(* Eviction by the stores: an entry expires, or capacity pressure pushes   *)
(* it out.                                                                 *)
(***************************************************************************)
EvictBlock ==
  /\ \E r \in blocks : blocks' = blocks \ {r}
  /\ last' = NoObs
  /\ UNCHANGED <<head, currentBundle, states, tasks, genesis>>

EvictState ==
  /\ \E sr \in states : states' = states \ {sr}
  /\ last' = NoObs
  /\ UNCHANGED <<head, currentBundle, blocks, tasks, genesis>>

(***************************************************************************)
(* The Query API.  A lookup returns [err, found]: err is the error         *)
(* returned ("none" for nil), found tells whether the value returned is    *)
(* non-nil.                                                                *)
(***************************************************************************)
BlockResult(block) ==
  IF block = NoBlock THEN [err |-> "block not found", found |-> FALSE]
  ELSE [err |-> "none", found |-> TRUE]

GetBlockBySlot(bl, slot) == BlockResult(GetBySlot(bl, slot))

GetBlockByRoot(bl, root) == BlockResult(GetByRoot(bl, root))

GetBlockByStateRoot(bl, stateRoot) == BlockResult(GetBlockOfStateRoot(bl, stateRoot))

\* return m.states.GetByStateRoot(stateRoot)
GetBeaconStateByStateRoot(st, stateRoot) ==
  [err |-> "none", found |-> GetState(st, stateRoot)]

GetBeaconStateBySlot(bl, st, slot) ==
  LET block == GetBySlot(bl, slot)
  IN  IF block = NoBlock THEN [err |-> "block not found", found |-> FALSE]
      ELSE GetBeaconStateByStateRoot(st, block.stateRoot)

GetBeaconStateByRoot(bl, st, root) ==
  LET block == GetByRoot(bl, root)
  IN  IF block = NoBlock THEN [err |-> "block not found", found |-> FALSE]
      ELSE GetBeaconStateByStateRoot(st, block.stateRoot)

\* Slots a client may ask for: those of the chain's blocks and an empty one.
QuerySlots == {SlotOfRoot(r) : r \in Roots} \cup {1}

\* The observation of a lookup that returned res.
QueryObs(res) == [Obs("query") EXCEPT !.err = res.err, !.found = res.found]

\* A lookup of a block, by the block the store finds (or NoBlock).
QueryBlock(block) ==
  /\ last' = QueryObs(BlockResult(block))
  /\ UNCHANGED <<head, currentBundle, blocks, states, tasks, genesis>>

\* A lookup of a state through its block.
QueryStateOfBlock(block, res) ==
  /\ last' = QueryObs(res)
  /\ UNCHANGED <<head, currentBundle, blocks, states, tasks, genesis>>

QueryGetBlockBySlot == \E slot \in QuerySlots : QueryBlock(GetBySlot(blocks, slot))

\* Faulty variant: a lookup that misses enqueues a download of the root.
QueryGetBlockByRootFetching ==
  \E root \in Roots :
     /\ last' = QueryObs(GetBlockByRoot(blocks, root))
     /\ tasks' = IF GetByRoot(blocks, root) = NoBlock THEN AddToQueue(tasks, root)
                 ELSE tasks
     /\ UNCHANGED <<head, currentBundle, blocks, states, genesis>>

QueryGetBlockByRoot == \E root \in Roots : QueryBlock(GetByRoot(blocks, root))

QueryGetBlockByStateRoot ==
  \E sr \in StateRoots : QueryBlock(GetBlockOfStateRoot(blocks, sr))

QueryGetBeaconStateBySlot ==
  \E slot \in QuerySlots :
     QueryStateOfBlock(GetBySlot(blocks, slot), GetBeaconStateBySlot(blocks, states, slot))

QueryGetBeaconStateByRoot ==
  \E root \in Roots :
     QueryStateOfBlock(GetByRoot(blocks, root), GetBeaconStateByRoot(blocks, states, root))

QueryGetBeaconStateByStateRoot ==
  \E sr \in StateRoots :
     /\ last' = QueryObs(GetBeaconStateByStateRoot(states, sr))
     /\ UNCHANGED <<head, currentBundle, blocks, states, tasks, genesis>>

\* Finality returns m.currentBundle; Healthy and Syncing read the status the
\* pool keeps of its nodes.
QueryLocal ==
  /\ last' = QueryObs([err |-> "none", found |-> TRUE])
  /\ UNCHANGED <<head, currentBundle, blocks, states, tasks, genesis>>

\* UpstreamsStatus calls node.Beacon.GetFinality on every configured node.
QueryUpstreamsStatus ==
  /\ last' = [Obs("UpstreamsStatus") EXCEPT !.found = TRUE, !.calls = NumNodes]
  /\ UNCHANGED <<head, currentBundle, blocks, states, tasks, genesis>>

Query ==
  \/ QueryGetBlockBySlot
  \/ QueryGetBlockByRoot
  \/ QueryGetBlockByStateRoot
  \/ QueryGetBeaconStateBySlot
  \/ QueryGetBeaconStateByRoot
  \/ QueryGetBeaconStateByStateRoot
  \/ QueryLocal
  \/ QueryUpstreamsStatus

(***************************************************************************)
(* The provider after NewMajorityProvider and Start.                       *)
(***************************************************************************)
Init ==
  /\ head = NilFinality
  /\ currentBundle = NilFinality
  /\ blocks = {}
  /\ states = {}
  /\ tasks = [r \in Roots |-> 0]
  /\ genesis = "wait"
  /\ last = NoObs

Next ==
  \/ Tick
  \/ Download
  \/ checkGenesis
  \/ EvictBlock
  \/ EvictState
  \/ Query

Spec == Init /\ [][Next]_vars

(***************************************************************************)
(* The provider with stores that neither fail nor evict, a queue that is   *)
(* never saturated, ticks that keep coming and download tasks that end:    *)
(* gocron runs the job every five seconds, and a live task whose upstream  *)
(* can serve the block and the state completes.                            *)
(***************************************************************************)
LiveTick ==
  /\ \E majority \in PollMajorities :
       \E backfilled \in IF majority # NilFinality /\ HeadDiffers(head, majority)
                         THEN BackfillOutcomes(blocks, majority) ELSE {blocks} :
          checkFinality(majority, "none", FALSE, backfilled)
  /\ UNCHANGED <<states, genesis>>

LiveNext ==
  \/ LiveTick
  \/ Download
  \/ checkGenesis

LiveSpec ==
  /\ Init
  /\ [][LiveNext]_vars
  /\ WF_vars(LiveTick)
  /\ \A r \in Roots : WF_vars(DownloadBundle(r))

\* LiveSpec with the genesis task scheduled too: five seconds after Start it
\* runs, and each of its calls returns.
GenesisLiveSpec == LiveSpec /\ WF_vars(checkGenesis)

(***************************************************************************)
(* The first half of checkFinality alone: the nodes are polled and the     *)
(* reports aggregated.  last keeps the answers of the nodes and the        *)
(* majority found.                                                         *)
(***************************************************************************)
Aggregate ==
  /\ \E poll \in Polls :
       last' = [op |-> "Majority", poll |-> poll,
                majority |-> Majority(Collect(poll, NumNodes))]
  /\ UNCHANGED <<head, currentBundle, blocks, states, tasks, genesis>>

AggSpec == Init /\ [][Aggregate]_vars

(***************************************************************************)
(* fetchHistoricalCheckpoints alone, on any content of the stores and for  *)
(* any finalized epoch.  last keeps the epoch, SlotsPerEpoch and the calls *)
(* made.                                                                   *)
(***************************************************************************)
BackfillInit ==
  /\ head = NilFinality
  /\ currentBundle = NilFinality
  /\ blocks \in SUBSET Roots
  /\ states \in SUBSET StateRoots
  /\ tasks = [r \in Roots |-> 0]
  /\ genesis = "wait"
  /\ last = NoObs

FetchHistorical ==
  /\ last = NoObs
  /\ \E epoch \in 0..MaxBackfillEpoch, spe \in SpecSlotsPerEpoch,
        failAt \in 0..(historicalDistance - 1) :
       LET checkpoint == [epoch |-> epoch, root |-> GenesisRoot]
           calls == BackfillCalls(blocks, epoch, spe, 1, failAt)
       IN  /\ blocks' = fetchHistoricalCheckpoints(blocks, checkpoint, TRUE, spe, failAt)
           /\ last' = [op |-> "fetchHistoricalCheckpoints", epoch |-> epoch,
                       spe |-> spe, lookups |-> calls.lookups,
                       requests |-> calls.requests, complete |-> calls.complete]
  /\ UNCHANGED <<head, currentBundle, states, tasks, genesis>>

BackfillSpec == BackfillInit /\ [][FetchHistorical]_vars

(***************************************************************************)
(* Properties.                                                             *)
(***************************************************************************)
\* Roots whose block sits on an epoch boundary.
AlignedRoots == {r \in Roots : SlotOfRoot(r) % slotsPerEpoch = 0}

\* C1: serving closure.  Whenever the serving view names a finalized root,
\* the block store holds the block with that root and the state store holds
\* the state of that block's state root.
C1_ServingClosure ==
  currentBundle # NilFinality =>
    LET block == GetByRoot(blocks, currentBundle.root)
    IN  block # NoBlock /\ GetState(states, block.stateRoot)

\* C2: serving alignment.  Whenever the serving view is set to a checkpoint,
\* the slot of the block with its finalized root is a multiple of 32.
C2_ServingAligned ==
  currentBundle # NilFinality => SlotOfRoot(currentBundle.root) % 32 = 0

\* A tick has turned down a checkpoint whose block is off the epoch boundary
\* while a checkpoint is being served.
C2_Witness ==
  /\ last.op = "checkFinality"
  /\ last.err = "not aligned"
  /\ currentBundle # NilFinality

\* C3: a tick whose updateServingCheckpoint fails (block not found, state not
\* found, slot not aligned, store error) leaves currentBundle as it was.
C3_FailureKeepsServing ==
  [][(last'.op = "checkFinality" /\ last'.err # "none")
       => currentBundle' = currentBundle]_vars

\* A tick has failed on a missing block while a checkpoint is being served.
C3_Witness ==
  /\ last.op = "checkFinality"
  /\ last.err = "block not found"
  /\ currentBundle # NilFinality
  /\ currentBundle.root # last.majority.root

\* C4: a tick sets head to the majority and publishes finality_head_updated
\* exactly when the majority's root differs from head's root (or head is
\* absent); otherwise, and in every other step, head stays and nothing is
\* published.  So over ticks with one majority root, the first publishes and
\* the later ones leave head alone.
C4_HeadFollowsRootChange ==
  [][IF /\ last'.op = "checkFinality"
        /\ last'.majority # NilFinality
        /\ (head = NilFinality \/ head.root # last'.majority.root)
     THEN head' = last'.majority /\ last'.published
     ELSE head' = head /\ ~last'.published]_vars

\* A tick has found a majority of head's root at another epoch, and has not
\* published.
C4_Witness ==
  /\ last.op = "checkFinality"
  /\ last.majority # NilFinality
  /\ last.majority.root = head.root
  /\ last.majority.epoch # head.epoch
  /\ ~last.published

\* C5: serving is blocked until the bundle is complete, and then promoted.
\* With head at root R and the block of R stored on an epoch boundary, a tick
\* that finds the majority at R leaves currentBundle as it was while the
\* state is missing; with the state stored (and no store call failing) it
\* ends with currentBundle at root R: the majority itself, when the serving
\* view was at another root.
C5_BlockedThenPromoted ==
  [][(/\ last'.op = "checkFinality"
      /\ last'.majority # NilFinality
      /\ head # NilFinality
      /\ head.root = last'.majority.root
      /\ head.root \in AlignedRoots
      /\ GetByRoot(blocks, head.root) # NoBlock)
     => IF ~GetState(states, StateRootOfRoot(head.root))
        THEN currentBundle' = currentBundle
        ELSE last'.err # "store error"
             => /\ currentBundle'.root = head.root
                /\ currentBundle.root # head.root => currentBundle' = last'.majority]_vars

\* A tick that left head alone has promoted the majority: head was at this
\* root before, and the serving view was not.
C5_Witness ==
  /\ last.op = "checkFinality"
  /\ ~last.published
  /\ last.err = "none"
  /\ last.reads # {}
  /\ currentBundle = last.majority

\* C6: if from some point on head stays at an aligned root R and ticks keep
\* finding the majority at R, the serving view eventually is at R (with
\* stores that keep what they get, under fairness of ticks and downloads) -
\* also when the download task for R has been dropped.
C6_ServingCatchesUp ==
  \A r \in AlignedRoots :
     (/\ <>[](head.root = r)
      /\ []<>(last.op = "checkFinality" /\ last.majority.root = r))
       => <>(currentBundle.root = r)

\* C7: genesis pinning.  A tick that starts with the slot-0 block and its
\* state stored touches both entries (it looks them up in the stores).  The
\* lookups of a tick are those of updateServingCheckpoint, in last.reads, and
\* the GetBySlot calls of the back-fill, which skip slot 0.
C7_TickTouchesGenesis ==
  [][(/\ last'.op = "checkFinality"
      /\ GetBySlot(blocks, 0) # NoBlock
      /\ GetState(states, GetBySlot(blocks, 0).stateRoot))
     => {GenesisRoot, StateRootOfRoot(GenesisRoot)} \subseteq last'.reads]_vars

\* C8: single-flight downloads.  At most one download task per root is
\* alive, and an AddToQueue that meets a live task for its root starts
\* nothing: the tasks are as they were.
C8_SingleFlight ==
  [][/\ \A r \in Roots : tasks'[r] <= 1
     /\ last'.dup => tasks' = tasks]_vars

\* The AddToQueue of checkGenesis has met a task for the genesis root that
\* was enqueued after its ExistsInQueue.
C8_Witness ==
  /\ last.op = "checkGenesis"
  /\ last.dup
  /\ tasks[GenesisRoot] = 1

\* C9: a Query API lookup whose artifact is absent returns an error: no
\* lookup returns nil without an error.
C9_AbsentIsNotFound ==
  last.op = "query" => (last.found \/ last.err # "none")

\* C10, as the specification states it: no Query API method (UpstreamsStatus included) calls an
\* upstream node, enqueues a download or changes head, currentBundle or the
\* download queue.
C10_QueriesStayLocal ==
  [][last'.op \in {"query", "UpstreamsStatus"}
       => /\ last'.calls = 0
          /\ head' = head /\ currentBundle' = currentBundle /\ tasks' = tasks]_vars

\* C10, as the code has it: no Query API method enqueues a download or changes head,
\* currentBundle or the download queue, and every method but UpstreamsStatus
\* makes no call on an upstream node.
C10_QueriesChangeNothing ==
  [][last'.op \in {"query", "UpstreamsStatus"}
       => /\ last'.op = "query" => last'.calls = 0
          /\ head' = head /\ currentBundle' = currentBundle /\ tasks' = tasks]_vars

\* UpstreamsStatus has run and has called the upstream nodes, with a download
\* task alive and a checkpoint served.
C10_Witness ==
  /\ last.op = "UpstreamsStatus"
  /\ last.calls > 0
  /\ currentBundle # NilFinality
  /\ \E r \in Roots : tasks[r] > 0

\* The nodes that answered c in a poll, and the checkpoints reported in it.
Votes(poll, c) == Cardinality({n \in Nodes : poll[n] = c})
Reports(poll) == {poll[n] : n \in Nodes} \ {NoReport}

\* C11: the majority of a tick depends only on the multiset of the reports
\* collected: polling the nodes in any other order gives the same majority,
\* and it is the reported checkpoint with the most votes, ties going to the
\* higher epoch and then to the larger root (no report at all: no
\* candidates).
C11_MajorityOfMultiset ==
  last.op = "Majority" =>
    LET poll == last.poll
        m == last.majority
    IN  /\ \A perm \in Permutations(Nodes) :
             Majority(Collect([n \in Nodes |-> poll[perm[n]]], NumNodes)) = m
        /\ IF Reports(poll) = {} THEN m = NilFinality
           ELSE /\ m \in Reports(poll)
                /\ \A d \in Reports(poll) \ {m} :
                     \/ Votes(poll, m) > Votes(poll, d)
                     \/ /\ Votes(poll, m) = Votes(poll, d)
                        /\ \/ m.epoch > d.epoch
                           \/ m.epoch = d.epoch /\ m.root > d.root

\* Two nodes report one checkpoint and two a checkpoint of a higher epoch;
\* the lower epoch is polled first and the higher epoch is the majority.
C11_Witness ==
  /\ last.op = "Majority"
  /\ \E d \in Reports(last.poll) :
       /\ Votes(last.poll, d) = 2
       /\ Votes(last.poll, last.majority) = 2
       /\ d.epoch < last.majority.epoch
       /\ last.poll[1] = d
       /\ last.poll[2] = d

\* C12: a tick that collects no report returns the no-candidates error and
\* changes nothing: head, currentBundle, the download queue and the stores
\* are as before and nothing is published, so the next tick starts from the
\* state this one found.
C12_NoCandidatesChangesNothing ==
  [][(last'.op = "checkFinality" /\ last'.majority = NilFinality)
       => /\ last'.err = "no candidates"
          /\ ~last'.published
          /\ UNCHANGED <<head, currentBundle, tasks, blocks, states, genesis>>]_vars

\* A tick has found no candidates with a head known, a checkpoint served and
\* a download task alive.
C12_Witness ==
  /\ last.op = "checkFinality"
  /\ last.err = "no candidates"
  /\ head # NilFinality
  /\ currentBundle # NilFinality
  /\ \E r \in Roots : tasks[r] > 0

\* C13: genesis seeding is attempted again.  Whenever the slot-0 bundle is
\* neither stored nor in the download queue - the first checkGenesis failed,
\* or its download was dropped - a download of the genesis root is enqueued
\* eventually, or the bundle gets stored (under fairness of the ticks, of the
\* genesis task and of the downloads).
C13_GenesisSeededAgain ==
  (~ExistsInQueue(tasks, GenesisRoot)
     /\ ~(GetBySlot(blocks, 0) # NoBlock
          /\ GetState(states, StateRootOfRoot(GenesisRoot))))
  ~> (ExistsInQueue(tasks, GenesisRoot)
        \/ (GetBySlot(blocks, 0) # NoBlock
              /\ GetState(states, StateRootOfRoot(GenesisRoot))))

\* C14: head and currentBundle are written by the periodic finality check
\* only.  Every other step (checkGenesis, the Query API, the download tasks,
\* the stores) leaves both as they are, and a tick leaves each of them as it
\* was or at its majority, whatever the subscribers it ran have done.
C14_OnlyTickWrites ==
  [][IF last'.op = "checkFinality"
     THEN /\ head' \in {head, last'.majority}
          /\ currentBundle' \in {currentBundle, last'.majority}
     ELSE head' = head /\ currentBundle' = currentBundle]_vars

\* The AddToQueue of checkGenesis has run with a head known and a checkpoint
\* served.
C14_Witness ==
  /\ last.op = "checkGenesis"
  /\ head # NilFinality
  /\ currentBundle # NilFinality

\* C15: failures of single nodes are skipped.  When all nodes but one fail
\* GetFinality, the report of the one that answers is the majority, the same
\* majority as when every node gives that report; checkFinality reads nothing
\* of the poll but the majority, so head, publication and serving go on alike.
C15_SoleSurvivor ==
  (last.op = "Majority" /\ Cardinality({n \in Nodes : last.poll[n] # NoReport}) = 1)
    => \A c \in Reports(last.poll) :
          /\ last.majority = c
          /\ Majority(Collect([n \in Nodes |-> c], NumNodes)) = last.majority

\* Only the node polled last has answered, and its report is the majority.
C15_Witness ==
  /\ last.op = "Majority"
  /\ \A n \in Nodes \ {NumNodes} : last.poll[n] = NoReport
  /\ last.poll[NumNodes] # NoReport
  /\ last.majority = last.poll[NumNodes]

\* C16: a back-fill at epoch E with SlotsPerEpoch S that runs to its end
\* asks the upstream for exactly the slots E*S - i*S, i = 1..9, that are
\* slots other than 0 and not in the block store by slot, in decreasing
\* order, adds each block it gets to the block store and leaves the state
\* store alone.
C16_BackfillSlots ==
  [][(last'.op = "fetchHistoricalCheckpoints" /\ last'.complete)
       => LET E == last'.epoch
              S == last'.spe
              wanted == {slot \in {E * S - i * S : i \in 1..(historicalDistance - 1)} :
                           slot > 0 /\ GetBySlot(blocks, slot) = NoBlock}
              requests == last'.requests
          IN  /\ {requests[k] : k \in 1..Len(requests)} = wanted
              /\ \A j, k \in 1..Len(requests) : j < k => requests[j] > requests[k]
              /\ blocks' = blocks \cup {r \in Roots : SlotOfRoot(r) \in wanted}
              /\ states' = states]_vars

\* C18: for every finalized epoch E, each slot that the back-fill looks up
\* in the block store or asks the upstream for is a positive multiple of
\* SlotsPerEpoch below E * SlotsPerEpoch: the unsigned subtraction does not
\* wrap around.
C18_BackfillSlotsInRange ==
  last.op = "fetchHistoricalCheckpoints"
    => \A slot \in {last.lookups[k] : k \in 1..Len(last.lookups)}
                      \cup {last.requests[k] : k \in 1..Len(last.requests)} :
          /\ slot > 0
          /\ slot % last.spe = 0
          /\ slot < last.epoch * last.spe

\* C17: a run of the job whose majority has the root of currentBundle does not
\* call updateServingCheckpoint (no store is read, no error comes back) and
\* leaves currentBundle as it is; and updateServingCheckpoint called again
\* with the checkpoint that is served leaves currentBundle the same value,
\* whatever the stores hold and whichever store call fails.
C17_ServingIdempotent ==
  [][(/\ last'.op = "checkFinality"
      /\ last'.majority # NilFinality
      /\ currentBundle # NilFinality
      /\ last'.majority.root = currentBundle.root)
       => /\ currentBundle' = currentBundle
          /\ last'.reads = {}
          /\ last'.err = "none"
          /\ \A se \in StoreErrs :
                updateServingCheckpoint(blocks', states', currentBundle',
                                        currentBundle', se).bundle = currentBundle']_vars

\* A run of the job has found the majority at a later epoch with the root
\* that is served, and has not touched the stores.
C17_Witness ==
  /\ last.op = "checkFinality"
  /\ currentBundle # NilFinality
  /\ last.majority # NilFinality
  /\ last.majority.root = currentBundle.root
  /\ last.majority.epoch > currentBundle.epoch
  /\ last.reads = {}
  /\ last.err = "none"

\* C19: whenever currentBundle is set, head is set, and a run of the job that
\* changes currentBundle ends with currentBundle's root equal to head's.
C19_ServingIsHead ==
  [][/\ currentBundle' # NilFinality => head' # NilFinality
     /\ currentBundle' # currentBundle
          => /\ last'.op = "checkFinality"
             /\ currentBundle'.root = head'.root]_vars

\* A run of the job has moved currentBundle to a head that an earlier run
\* had set.
C19_Witness ==
  /\ last.op = "checkFinality"
  /\ ~last.published
  /\ last.reads # {}
  /\ last.err = "none"
  /\ currentBundle = last.majority
  /\ currentBundle.root = head.root

====
